---- MODULE Spec2Model ----
(***************************************************************************)
(* react-native-nitro-cookies: the public API (index.tsx), the iOS adapter *)
(* (HybridNitroCookies.swift) and the Android adapter (NitroCookies.kt)    *)
(* over the platform cookie stores.                                        *)
(*                                                                         *)
(* Strings are sequences of one-character strings, so that prefix/suffix   *)
(* tests, splitting and trimming are computed as the code computes them.   *)
(* An absent optional (nil / null / undefined) is the value Nil.           *)
(***************************************************************************)
EXTENDS Integers, Sequences, FiniteSets, TLC

VARIABLES
    platform,       \* "ios" or "android": the native adapter behind the HybridObject
    httpStorage,    \* iOS HTTPCookieStorage.shared: a set of HTTPCookie
    webkitStore,    \* iOS WKWebsiteDataStore.default().httpCookieStore: a set of HTTPCookie
    cookieManager,  \* Android CookieManager.getInstance(): a set of stored cookies
    last,           \* the last public API call: its name, arguments and outcome
    tasks           \* the asynchronous calls in flight, step by step (SpecAsync)

vars == <<platform, httpStorage, webkitStore, cookieManager, last, tasks>>

\* Total number of cookies the stores hold in a checked run.
MaxCookies == 2

(***************************************************************************)
(* Strings                                                                 *)
(***************************************************************************)
Nil == <<"NIL">>

StartsWith(s, p) == Len(p) <= Len(s) /\ SubSeq(s, 1, Len(p)) = p

EndsWith(s, p) == Len(p) <= Len(s) /\ SubSeq(s, Len(s) - Len(p) + 1, Len(s)) = p

DropFirst(s) == SubSeq(s, 2, Len(s))

\* Index of the first occurrence of character ch in s, 0 when there is none.
IndexOf(s, ch) ==
    LET I == {i \in 1..Len(s) : s[i] = ch}
    IN  IF I = {} THEN 0 ELSE CHOOSE i \in I : \A j \in I : i <= j

\* Index of the first occurrence of the substring p in s, 0 when there is none.
IndexOfSub(s, p) ==
    LET I == {i \in 1..(Len(s) - Len(p) + 1) : SubSeq(s, i, i + Len(p) - 1) = p}
    IN  IF I = {} THEN 0 ELSE CHOOSE i \in I : \A j \in I : i <= j

RECURSIVE Split(_, _)
\* s.split(ch): the pieces of s between occurrences of ch (at least one piece).
Split(s, ch) ==
    LET i == IndexOf(s, ch)
    IN  IF i = 0 THEN <<s>>
        ELSE <<SubSeq(s, 1, i - 1)>> \o Split(SubSeq(s, i + 1, Len(s)), ch)

\* s.split(ch, limit = 2): at most two pieces, cut at the first ch.
Split2(s, ch) ==
    LET i == IndexOf(s, ch)
    IN  IF i = 0 THEN <<s>>
        ELSE <<SubSeq(s, 1, i - 1), SubSeq(s, i + 1, Len(s))>>

RECURSIVE TrimLeft(_)
TrimLeft(s) == IF s # <<>> /\ s[1] = " " THEN TrimLeft(DropFirst(s)) ELSE s

RECURSIVE TrimRight(_)
TrimRight(s) ==
    IF s # <<>> /\ s[Len(s)] = " " THEN TrimRight(SubSeq(s, 1, Len(s) - 1)) ELSE s

Trim(s) == TrimRight(TrimLeft(s))

\* .map { it.trim() }
TrimEach(parts) == [i \in 1..Len(parts) |-> Trim(parts[i])]

RECURSIVE Join(_, _)
\* parts.joined(separator:) / joinToString(sep)
Join(parts, sep) ==
    IF parts = <<>> THEN <<>>
    ELSE IF Len(parts) = 1 THEN parts[1]
    ELSE parts[1] \o sep \o Join(DropFirst(parts), sep)

LowerChar(c) ==
    LET upper == <<"A", "B", "C", "D", "E", "F", "G", "H", "I", "J", "K", "L", "M",
                   "N", "O", "P", "Q", "R", "S", "T", "U", "V", "W", "X", "Y", "Z">>
        lower == <<"a", "b", "c", "d", "e", "f", "g", "h", "i", "j", "k", "l", "m",
                   "n", "o", "p", "q", "r", "s", "t", "u", "v", "w", "x", "y", "z">>
    IN  IF \E i \in 1..26 : upper[i] = c
        THEN lower[CHOOSE i \in 1..26 : upper[i] = c] ELSE c

Lower(s) == [i \in 1..Len(s) |-> LowerChar(s[i])]

\* part.startsWith(prefix, ignoreCase = true)
StartsWithIgnoreCase(s, p) == StartsWith(Lower(s), Lower(p))

\* String literals used by the code.
S_http == <<"h", "t", "t", "p">>
S_https == <<"h", "t", "t", "p", "s">>
S_schemeSep == <<":", "/", "/">>
S_slash == <<"/">>
S_dot == <<".">>
S_eq == <<"=">>
S_semiSpace == <<";", " ">>
S_PathEq == <<"P", "a", "t", "h", "=">>
S_DomainEq == <<"D", "o", "m", "a", "i", "n", "=">>
S_ExpiresEq == <<"E", "x", "p", "i", "r", "e", "s", "=">>
S_Secure == <<"S", "e", "c", "u", "r", "e">>
S_HttpOnly == <<"H", "t", "t", "p", "O", "n", "l", "y">>
S_path == <<"p", "a", "t", "h">>
S_domain == <<"d", "o", "m", "a", "i", "n">>
S_expires == <<"e", "x", "p", "i", "r", "e", "s">>
S_secure == <<"s", "e", "c", "u", "r", "e">>
S_httponly == <<"h", "t", "t", "p", "o", "n", "l", "y">>
S_zero == <<"0">>

(***************************************************************************)
(* URLs: URL(string:) on iOS, java.net.URL on Android.                     *)
(* url.scheme / url.host / url.path; host is Nil when the string holds no  *)
(* "scheme://host" part.                                                   *)
(***************************************************************************)
\* The URL of a scheme and of what follows "://", whose first "/" is at j.
ParseURL_split(scheme, rest, j) ==
    [scheme |-> scheme,
     host |-> IF j = 1 \/ rest = <<>> THEN Nil
              ELSE IF j = 0 THEN rest ELSE SubSeq(rest, 1, j - 1),
     path |-> IF j = 0 THEN <<>> ELSE SubSeq(rest, j, Len(rest))]

\* The URL of a string whose "://" is at i (0: none).
ParseURL_from(urlString, i) ==
    IF i <= 1
    THEN [scheme |-> Nil, host |-> Nil, path |-> <<>>]
    ELSE ParseURL_split(SubSeq(urlString, 1, i - 1),
                        SubSeq(urlString, i + 3, Len(urlString)),
                        IndexOf(SubSeq(urlString, i + 3, Len(urlString)), "/"))

ParseURL(urlString) == ParseURL_from(urlString, IndexOfSub(urlString, S_schemeSep))

\* A validateURL that asks for a scheme but not for http or https.
validateURL_anyScheme(url) == [ok |-> url.scheme # Nil, url |-> url]

\* guard scheme == "http" || scheme == "https" else { throw INVALID_URL }
validateURL_scheme(url) ==
    [ok |-> url.scheme # Nil /\ (url.scheme = S_http \/ url.scheme = S_https),
     url |-> url]

\* iOS validateURL: throws INVALID_URL unless the scheme is http or https.
validateURL_ios(urlString) == validateURL_scheme(ParseURL(urlString))

\* java.net.URL lower-cases the protocol it recognises.
LowerScheme(parsed) ==
    IF parsed.scheme = Nil THEN parsed
    ELSE [parsed EXCEPT !.scheme = Lower(parsed.scheme)]

\* Android validateURL: URL(urlString) throws without a known protocol (the
\* protocol is lower-cased by java.net.URL), then http/https is required.
validateURL_android(urlString) == validateURL_scheme(LowerScheme(ParseURL(urlString)))

(***************************************************************************)
(* Dates.  An instant is "1970" (in the past) or "2030" (in the future);   *)
(* the formatters convert between instants and their ISO 8601 / RFC 1123   *)
(* texts.  A text no formatter reads parses to Nil.                        *)
(***************************************************************************)
ISO_2030 == <<"2", "0", "3", "0", "-", "0", "1", "T", "0", "0", ".", "0", "Z">>
ISO_1970 == <<"1", "9", "7", "0", "-", "0", "1", "T", "0", "0", ".", "0", "Z">>
ISO_BAD == <<"s", "o", "o", "n">>
RFC_2030 == <<"T", "u", "e", ",", " ", "2", "0", "3", "0", " ", "G", "M", "T">>
RFC_1970 == <<"T", "h", "u", ",", " ", "1", "9", "7", "0", " ", "G", "M", "T">>

NoDate == "session"

\* A formatter that reads every text it does not know as a date of 2030.
iso8601Parse_lenient(text) == IF text = ISO_1970 THEN "1970" ELSE "2030"

\* iso8601Formatter.date(from:) / iso8601Formatter.parse
iso8601Parse(text) ==
    IF text = ISO_2030 THEN "2030" ELSE IF text = ISO_1970 THEN "1970" ELSE NoDate

\* iso8601Formatter.string(from:) / iso8601Formatter.format
iso8601Format(date) == IF date = "2030" THEN ISO_2030 ELSE ISO_1970

\* rfc1123Formatter.string(from:) / rfc1123Formatter.format
rfc1123Format(date) == IF date = "2030" THEN RFC_2030 ELSE RFC_1970

\* The date a Set-Cookie parser reads from an Expires attribute.
rfc1123Parse(text) ==
    IF text = RFC_2030 THEN "2030" ELSE IF text = RFC_1970 THEN "1970" ELSE NoDate

IsExpired(date) == date = "1970"

(***************************************************************************)
(* Inputs of the modelled calls.                                           *)
(***************************************************************************)
HOST_EC == <<"e", ".", "c">>                    \* example.com
HOST_AEC == <<"a", ".", "e", ".", "c">>         \* api.example.com
DOT_EC == <<".", "e", ".", "c">>                \* .example.com
HOST_OC == <<"o", ".", "c">>                    \* other.com
HOST_XEC == <<"x", "e", ".", "c">>              \* badexample.com
PATH_P == <<"/", "p">>

URL_EC == S_https \o S_schemeSep \o HOST_EC                \* https://example.com
URL_EC_P == S_https \o S_schemeSep \o HOST_EC \o PATH_P    \* https://example.com/p
URL_AEC == S_https \o S_schemeSep \o HOST_AEC              \* https://api.example.com
URL_BAD == HOST_EC                                         \* example.com (no protocol)
URL_EMPTY == <<>>                                          \* ''
URL_FTP == <<"f", "t", "p">> \o S_schemeSep \o HOST_EC      \* ftp://example.com
URL_XEC == S_https \o S_schemeSep \o HOST_XEC              \* https://badexample.com

\* URLs with an http(s) scheme and a host, and URLs validateURL refuses.
ValidUrlInputs == {URL_EC, URL_EC_P, URL_AEC}

InvalidUrlInputs == {URL_BAD, URL_EMPTY, URL_FTP}

UrlInputs == ValidUrlInputs \cup InvalidUrlInputs \cup {URL_XEC}

NAME_N == <<"n">>
NAME_M == <<"m">>
VAL_V == <<"v">>
VAL_W == <<"w">>
VAL_SP == <<" ", "v", "=", "w">>                \* ' v=w'
VAL_INJ == VAL_V \o S_semiSpace \o S_Secure     \* 'v; Secure'

NameInputs == {NAME_N, NAME_M}

\* The Cookie struct (types.ts): optional fields are Nil when omitted; the
\* optional booleans are "true", "false" or "null".
MkCookie(name, value, path, domain, expires, secure, httpOnly) ==
    [name |-> name, value |-> value, path |-> path, domain |-> domain,
     version |-> Nil, expires |-> expires, secure |-> secure, httpOnly |-> httpOnly]

CookieInputs ==
    { MkCookie(NAME_N, VAL_V, Nil, Nil, Nil, "null", "null"),
      MkCookie(NAME_N, VAL_W, Nil, Nil, ISO_2030, "null", "true"),
      MkCookie(NAME_M, VAL_V, PATH_P, DOT_EC, ISO_BAD, "true", "false"),
      MkCookie(NAME_N, VAL_V, S_slash, HOST_OC, Nil, "null", "null"),
      MkCookie(NAME_N, VAL_V, Nil, Nil, ISO_1970, "null", "null"),
      MkCookie(NAME_M, VAL_SP, Nil, Nil, Nil, "null", "null") }

\* The (url, cookie) arguments of set / setSync: every cookie for the valid
\* URLs, the minimal cookie for the refused ones, and the cookie of domain
\* .example.com for https://badexample.com.
SetInputs ==
    (ValidUrlInputs \X CookieInputs)
    \cup (InvalidUrlInputs \X {MkCookie(NAME_N, VAL_V, Nil, Nil, Nil, "null", "null")})
    \cup {<<URL_XEC, MkCookie(NAME_M, VAL_V, PATH_P, DOT_EC, ISO_BAD, "true", "false")>>}
    \cup {<<URL_BAD, MkCookie(NAME_N, VAL_V, S_slash, HOST_OC, Nil, "null", "null")>>}
    \cup {<<URL_AEC, MkCookie(NAME_M, VAL_V, Nil, HOST_EC, Nil, "null", "null")>>}
    \cup {<<URL_EC, MkCookie(NAME_N, VAL_V, Nil, HOST_AEC, Nil, "null", "null")>>}
    \cup {<<URL_EC, MkCookie(NAME_N, VAL_INJ, Nil, Nil, Nil, "null", "true")>>}
    \cup {<<URL_EC, MkCookie(NAME_M, VAL_W, Nil, Nil, ISO_BAD, "null", "true")>>}

\* Set-Cookie header values given to setFromResponse / setFromResponseSync.
HEADER_NW == NAME_N \o S_eq \o VAL_W
HEADER_MV == NAME_M \o S_eq \o VAL_V \o S_semiSpace \o S_path \o S_eq \o PATH_P
             \o S_semiSpace \o S_secure \o S_semiSpace \o S_HttpOnly

HEADER_BAD == NAME_N \o VAL_W                    \* no name=value pair

\* 'n=v=w; Max-Age=1; DOMAIN=other.com'
HEADER_EQ == NAME_N \o S_eq \o VAL_V \o S_eq \o VAL_W
             \o S_semiSpace \o <<"M", "a", "x", "-", "A", "g", "e", "=", "1">>
             \o S_semiSpace \o <<"D", "O", "M", "A", "I", "N", "=">> \o HOST_OC

HeaderInputs == {HEADER_NW, HEADER_MV, HEADER_BAD}

\* The (url, value) arguments of setFromResponse / setFromResponseSync.
SetFromResponseInputs ==
    (ValidUrlInputs \X HeaderInputs) \cup (InvalidUrlInputs \X {HEADER_NW})

\* What the server answers to the GET of getFromResponse: the request fails,
\* or the response carries this Set-Cookie header (none when empty).
NetworkFailure == <<"FAILURE">>

ResponseInputs == {NetworkFailure, <<>>, HEADER_MV, HEADER_BAD, HEADER_EQ}

\* The public API's optional useWebKit argument.
UseWebKitInputs == {"undefined", "false", "true"}

(***************************************************************************)
(* The platform cookie stores.  A stored cookie (HTTPCookie on iOS, a      *)
(* CookieManager entry on Android) is a record                             *)
(*   [name, value, domain, path, expires, secure, httpOnly]                *)
(* whose domain starts with "." when it covers subdomains and is the bare  *)
(* host when it was taken from the URL.  A store holds at most one cookie  *)
(* per (name, domain, path).                                               *)
(***************************************************************************)
StoredCookie(name, value, domain, path, expires, secure, httpOnly) ==
    [name |-> name, value |-> value, domain |-> domain, path |-> path,
     expires |-> expires, secure |-> secure, httpOnly |-> httpOnly]

SameKey(a, b) == a.name = b.name /\ a.domain = b.domain /\ a.path = b.path

\* setCookie of a store: the cookie replaces the one with the same name,
\* domain and path; a cookie that has already expired only removes it.
StoreSetCookie(store, c) ==
    LET others == {x \in store : ~SameKey(x, c)}
    IN  IF IsExpired(c.expires) THEN others ELSE others \cup {c}

\* deleteCookie / delete of a store.
StoreDeleteCookie(store, c) == {x \in store : ~SameKey(x, c)}

\* The arrays in which a store may hand out a set of cookies: the stores
\* document no order.
Orderings(S) ==
    {s \in [1..Cardinality(S) -> S] : \A i, j \in 1..Cardinality(S) : s[i] = s[j] => i = j}

\* RFC 6265 5.1.4: the default path of a request URL's path.
DefaultPath(urlPath) ==
    LET slashes == {i \in 1..Len(urlPath) : urlPath[i] = "/"}
    IN  IF urlPath = <<>> \/ urlPath[1] # "/" \/ Cardinality(slashes) <= 1
        THEN S_slash
        ELSE SubSeq(urlPath, 1, (CHOOSE i \in slashes : \A j \in slashes : j <= i) - 1)

RECURSIVE ParseAttributes(_, _)
\* The attribute parts of a Set-Cookie line (RFC 6265 5.2), later ones
\* overriding earlier ones; names are matched without regard to case.
ParseAttributes(parts, acc) ==
    IF parts = <<>> THEN acc
    ELSE LET part == parts[1]
             i == IndexOf(part, "=")
             attrName == Lower(Trim(IF i = 0 THEN part ELSE SubSeq(part, 1, i - 1)))
             attrValue == IF i = 0 THEN <<>> ELSE Trim(SubSeq(part, i + 1, Len(part)))
             next ==
                 CASE attrName = S_path ->
                        [acc EXCEPT !.path = IF StartsWith(attrValue, S_slash)
                                             THEN attrValue ELSE Nil]
                   [] attrName = S_domain /\ attrValue # <<>> ->
                        [acc EXCEPT !.domain =
                            Lower(IF StartsWith(attrValue, S_dot)
                                  THEN DropFirst(attrValue) ELSE attrValue)]
                   [] attrName = S_expires /\ rfc1123Parse(attrValue) # NoDate ->
                        [acc EXCEPT !.expires = rfc1123Parse(attrValue)]
                   [] attrName = S_secure -> [acc EXCEPT !.secure = TRUE]
                   [] attrName = S_httponly -> [acc EXCEPT !.httpOnly = TRUE]
                   [] OTHER -> acc
         IN  ParseAttributes(DropFirst(parts), next)

\* A Set-Cookie line read by a platform parser: ok is FALSE when the line
\* holds no name=value pair.
ParseSetCookie(header) ==
    LET parts == Split(header, ";")
        i == IndexOf(parts[1], "=")
        name == IF i = 0 THEN <<>> ELSE Trim(SubSeq(parts[1], 1, i - 1))
        value == IF i = 0 THEN <<>> ELSE Trim(SubSeq(parts[1], i + 1, Len(parts[1])))
        attrs == ParseAttributes(DropFirst(parts),
                    [path |-> Nil, domain |-> Nil, expires |-> NoDate,
                     secure |-> FALSE, httpOnly |-> FALSE])
    IN  [ok |-> i # 0 /\ name # <<>>, name |-> name, value |-> value, attrs |-> attrs]

\* The cookie a parsed Set-Cookie line stands for at a URL: a Domain
\* attribute gives a dot-prefixed domain, none gives the URL's host; no Path
\* attribute gives the URL's default path.
CookieFromHeader(parsed, url) ==
    StoredCookie(parsed.name, parsed.value,
                 IF parsed.attrs.domain = Nil THEN url.host
                 ELSE S_dot \o parsed.attrs.domain,
                 IF parsed.attrs.path = Nil THEN DefaultPath(url.path)
                 ELSE parsed.attrs.path,
                 parsed.attrs.expires, parsed.attrs.secure, parsed.attrs.httpOnly)

\* HTTPCookie.cookies(withResponseHeaderFields: ["Set-Cookie": header], for: url)
HTTPCookiesFromHeader(header, url) ==
    LET parsed == ParseSetCookie(header)
    IN  IF parsed.ok THEN <<CookieFromHeader(parsed, url)>> ELSE <<>>

(***************************************************************************)
(* Outcomes of a native call: its status ("ok" or the error code thrown),  *)
(* the value returned and the stores as the call leaves them.              *)
(***************************************************************************)
Outcome(status, value, http, wk, cm) ==
    [status |-> status, value |-> value, http |-> http, wk |-> wk, cm |-> cm]

Throw(st, code) == Outcome(code, Nil, st.http, st.wk, st.cm)

Return(st, value) == Outcome("ok", value, st.http, st.wk, st.cm)

(***************************************************************************)
(* iOS adapter: HybridNitroCookies                                         *)
(***************************************************************************)
\* Remove CR, LF and NUL.
sanitizeCookieToken(value) ==
    SelectSeq(value, LAMBDA ch : ch # "\r" /\ ch # "\n" /\ ch # "NUL")

\* Cookie struct -> HTTPCookie.  HTTPCookie(properties:) takes name, value,
\* domain, path, expires and secure; with httpOnly the cookie is rebuilt by
\* parsing a Set-Cookie line, and the first cookie parsed is the result.
makeHTTPCookie(cookie, url) ==
    LET host == IF url.host = Nil THEN <<>> ELSE url.host
        cookieDomain == IF cookie.domain = Nil THEN host ELSE cookie.domain
        cookiePath == IF cookie.path = Nil THEN S_slash ELSE cookie.path
        expiresDate == IF cookie.expires = Nil THEN NoDate
                       ELSE iso8601Parse(cookie.expires)
        httpCookie == StoredCookie(cookie.name, cookie.value, cookieDomain, cookiePath,
                                   expiresDate, cookie.secure = "true", FALSE)
        parts == <<sanitizeCookieToken(httpCookie.name) \o S_eq
                       \o sanitizeCookieToken(httpCookie.value),
                   S_DomainEq \o httpCookie.domain,
                   S_PathEq \o httpCookie.path>>
                 \o (IF httpCookie.expires # NoDate
                     THEN <<S_ExpiresEq \o rfc1123Format(httpCookie.expires)>> ELSE <<>>)
                 \o (IF httpCookie.secure THEN <<S_Secure>> ELSE <<>>)
                 \o <<S_HttpOnly>>
        parsed == HTTPCookiesFromHeader(Join(parts, S_semiSpace), url)
    IN  IF cookie.httpOnly = "true"
        THEN IF parsed = <<>> THEN [ok |-> FALSE, cookie |-> httpCookie]
             ELSE [ok |-> TRUE, cookie |-> parsed[1]]
        ELSE [ok |-> TRUE, cookie |-> httpCookie]

\* A createCookieData that reports no cookie as secure.
createCookieData_ios_notSecure(httpCookie) ==
    [name |-> httpCookie.name,
     value |-> httpCookie.value,
     path |-> httpCookie.path,
     domain |-> IF StartsWith(httpCookie.domain, S_dot)
                THEN DropFirst(httpCookie.domain) ELSE httpCookie.domain,
     version |-> S_zero,
     expires |-> IF httpCookie.expires = NoDate THEN Nil
                 ELSE iso8601Format(httpCookie.expires),
     secure |-> "false",
     httpOnly |-> IF httpCookie.httpOnly THEN "true" ELSE "false"]

\* HTTPCookie -> Cookie struct: the leading dot of the domain is stripped.
createCookieData_ios(httpCookie) ==
    [name |-> httpCookie.name,
     value |-> httpCookie.value,
     path |-> httpCookie.path,
     domain |-> IF StartsWith(httpCookie.domain, S_dot)
                THEN DropFirst(httpCookie.domain) ELSE httpCookie.domain,
     version |-> S_zero,
     expires |-> IF httpCookie.expires = NoDate THEN Nil
                 ELSE iso8601Format(httpCookie.expires),
     secure |-> IF httpCookie.secure THEN "true" ELSE "false",
     httpOnly |-> IF httpCookie.httpOnly THEN "true" ELSE "false"]

isMatchingDomain_ios(cookieDomain, urlHost) ==
    IF cookieDomain = urlHost THEN TRUE
    ELSE IF StartsWith(cookieDomain, S_dot)
    THEN LET domain == DropFirst(cookieDomain)
         IN  EndsWith(urlHost, S_dot \o domain) \/ urlHost = domain
    ELSE EndsWith(urlHost, S_dot \o cookieDomain)

\* "ok", or the error validateDomain throws.
validateDomain_ios(cookie, url) ==
    IF url.host = Nil THEN "INVALID_URL"
    ELSE LET cookieDomain == IF cookie.domain = Nil THEN url.host ELSE cookie.domain
         IN  IF ~isMatchingDomain_ios(cookieDomain, url.host)
             THEN "DOMAIN_MISMATCH" ELSE "ok"

\* The defaults set and setSync apply before makeHTTPCookie.
cookieWithDefaults_ios(cookie, url) ==
    [cookie EXCEPT !.path = IF cookie.path = Nil THEN S_slash ELSE cookie.path,
                   !.domain = IF cookie.domain = Nil THEN url.host ELSE cookie.domain]

HostOf(url) == IF url.host = Nil THEN <<>> ELSE url.host

getSync_ios(st, urlString) ==
    LET v == validateURL_ios(urlString)
        filteredCookies == {c \in st.http : isMatchingDomain_ios(c.domain, HostOf(v.url))}
    IN  IF ~v.ok THEN {Throw(st, "INVALID_URL")}
        ELSE {Return(st, [i \in 1..Len(allCookies) |-> createCookieData_ios(allCookies[i])]) :
                 allCookies \in Orderings(filteredCookies)}

setSync_ios(st, urlString, cookie) ==
    LET v == validateURL_ios(urlString)
        made == makeHTTPCookie(cookieWithDefaults_ios(cookie, v.url), v.url)
    IN  IF ~v.ok THEN {Throw(st, "INVALID_URL")}
        ELSE IF validateDomain_ios(cookie, v.url) # "ok"
        THEN {Throw(st, validateDomain_ios(cookie, v.url))}
        ELSE IF ~made.ok THEN {Throw(st, "NitroCookies")}
        ELSE {Outcome("ok", TRUE, StoreSetCookie(st.http, made.cookie),
                      st.wk, st.cm)}

RECURSIVE StoreSetCookies(_, _)
\* for cookie in cookies { storage.setCookie(cookie) }
StoreSetCookies(store, cookies) ==
    IF cookies = <<>> THEN store
    ELSE StoreSetCookies(StoreSetCookie(store, cookies[1]), DropFirst(cookies))

setFromResponseSync_ios(st, urlString, value) ==
    LET v == validateURL_ios(urlString)
    IN  IF ~v.ok THEN {Throw(st, "INVALID_URL")}
        ELSE {Outcome("ok", TRUE,
                      StoreSetCookies(st.http, HTTPCookiesFromHeader(value, v.url)),
                      st.wk, st.cm)}

\* clearByNameSync that forgets to compare the name.
clearByNameSync_ios_anyName(st, urlString, name) ==
    LET v == validateURL_ios(urlString)
        matching == {c \in st.http : isMatchingDomain_ios(c.domain, HostOf(v.url))}
    IN  IF ~v.ok THEN {Throw(st, "INVALID_URL")}
        ELSE IF matching = {} THEN {Return(st, FALSE)}
        ELSE {Outcome("ok", TRUE, StoreDeleteCookie(st.http, cookie), st.wk, st.cm) :
                 cookie \in matching}

\* cookies.first { $0.name == name && isMatchingDomain(...) } of an array
\* whose order the store does not document: any matching cookie.
clearByNameSync_ios(st, urlString, name) ==
    LET v == validateURL_ios(urlString)
        matching == {c \in st.http :
                        c.name = name /\ isMatchingDomain_ios(c.domain, HostOf(v.url))}
    IN  IF ~v.ok THEN {Throw(st, "INVALID_URL")}
        ELSE IF matching = {} THEN {Return(st, FALSE)}
        ELSE {Outcome("ok", TRUE, StoreDeleteCookie(st.http, cookie),
                      st.wk, st.cm) : cookie \in matching}

set_ios(st, urlString, cookie, useWebKit) ==
    LET v == validateURL_ios(urlString)
        made == makeHTTPCookie(cookieWithDefaults_ios(cookie, v.url), v.url)
    IN  IF ~v.ok THEN {Throw(st, "INVALID_URL")}
        ELSE IF validateDomain_ios(cookie, v.url) # "ok"
        THEN {Throw(st, validateDomain_ios(cookie, v.url))}
        ELSE IF ~made.ok THEN {Throw(st, "NitroCookies")}
        ELSE IF useWebKit = TRUE
        THEN {Outcome("ok", TRUE, st.http,
                      StoreSetCookie(st.wk, made.cookie), st.cm)}
        ELSE {Outcome("ok", TRUE, StoreSetCookie(st.http, made.cookie),
                      st.wk, st.cm)}

get_ios(st, urlString, useWebKit) ==
    LET v == validateURL_ios(urlString)
        store == IF useWebKit = TRUE THEN st.wk ELSE st.http
        filteredCookies == {c \in store : isMatchingDomain_ios(c.domain, HostOf(v.url))}
    IN  IF ~v.ok THEN {Throw(st, "INVALID_URL")}
        ELSE {Return(st, [i \in 1..Len(allCookies) |-> createCookieData_ios(allCookies[i])]) :
                 allCookies \in Orderings(filteredCookies)}

\* for cookie in cookies { storage.deleteCookie(cookie) }
StoreDeleteCookies(store, cookies) == {x \in store : \A c \in cookies : ~SameKey(x, c)}

\* clearAll that clears HTTPCookieStorage whatever useWebKit says.
clearAll_ios_ignoresWebKit(st, useWebKit) ==
    {Outcome("ok", TRUE, StoreDeleteCookies(st.http, st.http), st.wk, st.cm)}

\* The selected store's cookies are read, then deleted one by one.
clearAll_ios(st, useWebKit) ==
    IF useWebKit = TRUE
    THEN {Outcome("ok", TRUE, st.http,
                  StoreDeleteCookies(st.wk, st.wk), st.cm)}
    ELSE {Outcome("ok", TRUE, StoreDeleteCookies(st.http, st.http),
                  st.wk, st.cm)}

setFromResponse_ios(st, urlString, value) ==
    LET v == validateURL_ios(urlString)
    IN  IF ~v.ok THEN {Throw(st, "INVALID_URL")}
        ELSE {Outcome("ok", TRUE,
                      StoreSetCookies(st.http, HTTPCookiesFromHeader(value, v.url)),
                      st.wk, st.cm)}

clearByName_ios(st, urlString, name, useWebKit) ==
    LET v == validateURL_ios(urlString)
        store == IF useWebKit = TRUE THEN st.wk ELSE st.http
        matching == {c \in store :
                        c.name = name /\ isMatchingDomain_ios(c.domain, HostOf(v.url))}
    IN  IF ~v.ok THEN {Throw(st, "INVALID_URL")}
        ELSE IF matching = {} THEN {Return(st, FALSE)}
        ELSE IF useWebKit = TRUE
        THEN {Outcome("ok", TRUE, st.http, StoreDeleteCookie(st.wk, cookie),
                      st.cm) : cookie \in matching}
        ELSE {Outcome("ok", TRUE, StoreDeleteCookie(st.http, cookie),
                      st.wk, st.cm) : cookie \in matching}

\* URLSession.shared.data(from: url) throws the session's own error when the
\* request fails; URLSession.shared keeps the cookies of a response in
\* HTTPCookieStorage.shared.  A response to an http(s) request is always an
\* HTTPURLResponse, so the "Not HTTP response" branch is not taken.
getFromResponse_ios(st, urlString, response) ==
    LET v == validateURL_ios(urlString)
    IN  IF ~v.ok THEN {Throw(st, "INVALID_URL")}
        ELSE IF response = NetworkFailure THEN {Throw(st, "NSURLErrorDomain")}
        ELSE {Outcome("ok", [i \in 1..Len(cookies) |-> createCookieData_ios(cookies[i])],
                      StoreSetCookies(st.http, cookies), st.wk, st.cm) :
                 cookies \in {IF response = <<>> THEN <<>>
                              ELSE HTTPCookiesFromHeader(response, v.url)}}

getAll_ios(st, useWebKit) ==
    LET store == IF useWebKit = TRUE THEN st.wk ELSE st.http
    IN  {Return(st, [i \in 1..Len(cookies) |-> createCookieData_ios(cookies[i])]) :
            cookies \in Orderings(store)}

\* No-op on iOS.
flush_ios(st) == {Return(st, Nil)}

removeSessionCookies_ios(st) == {Return(st, FALSE)}

(***************************************************************************)
(* Android: android.webkit.CookieManager                                   *)
(***************************************************************************)
\* RFC 6265 5.1.3, for a stored domain (dot-prefixed, or a bare host).
DomainMatches(cookieDomain, host) ==
    IF StartsWith(cookieDomain, S_dot)
    THEN host = DropFirst(cookieDomain) \/ EndsWith(host, cookieDomain)
    ELSE host = cookieDomain

\* RFC 6265 5.1.4
PathMatches(cookiePath, urlPath) ==
    LET requestPath == IF urlPath = <<>> THEN S_slash ELSE urlPath
    IN  \/ cookiePath = requestPath
        \/ /\ StartsWith(requestPath, cookiePath)
           /\ \/ cookiePath[Len(cookiePath)] = "/"
              \/ requestPath[Len(cookiePath) + 1] = "/"

\* cookieManager.setCookie(url, value): the line is parsed for the URL; a
\* cookie whose Domain attribute does not cover the URL's host, or a Secure
\* cookie for a URL that is not https, is dropped.
CookieManager_setCookie(store, urlString, value) ==
    LET url == ParseURL(urlString)
        parsed == ParseSetCookie(value)
        c == CookieFromHeader(parsed, url)
    IN  IF url.host = Nil \/ ~parsed.ok THEN store
        ELSE IF ~DomainMatches(c.domain, url.host) THEN store
        ELSE IF c.secure /\ url.scheme # S_https THEN store
        ELSE StoreSetCookie(store, c)

\* The strings cookieManager.getCookie(url) may return: the name=value pairs
\* of the cookies sent to url joined by "; ", cookies with longer paths
\* first; Nil (null) when no cookie is sent.
CookieManager_getCookie(store, urlString) ==
    LET url == ParseURL(urlString)
        sent == {c \in store : /\ url.host # Nil
                               /\ DomainMatches(c.domain, url.host)
                               /\ PathMatches(c.path, url.path)
                               /\ (c.secure => url.scheme = S_https)}
        orders == {s \in Orderings(sent) :
                      \A i, j \in 1..Len(s) : i < j => Len(s[i].path) >= Len(s[j].path)}
        Pair(c) == c.name \o S_eq \o c.value
    IN  IF sent = {} THEN {Nil}
        ELSE {Join([i \in 1..Len(s) |-> Pair(s[i])], S_semiSpace) : s \in orders}

(***************************************************************************)
(* Android adapter: NitroCookies.kt                                        *)
(***************************************************************************)
\* A toRFC6265String that writes neither Secure nor HttpOnly.
toRFC6265String_noFlags(cookie) ==
    Join(<<cookie.name \o S_eq \o cookie.value>>
         \o (IF cookie.path # Nil THEN <<S_PathEq \o cookie.path>> ELSE <<>>)
         \o (IF cookie.domain # Nil THEN <<S_DomainEq \o cookie.domain>> ELSE <<>>),
         S_semiSpace)

toRFC6265String(cookie) ==
    LET parts == <<cookie.name \o S_eq \o cookie.value>>
                 \o (IF cookie.path # Nil THEN <<S_PathEq \o cookie.path>> ELSE <<>>)
                 \o (IF cookie.domain # Nil THEN <<S_DomainEq \o cookie.domain>> ELSE <<>>)
                 \o (IF cookie.expires # Nil /\ iso8601Parse(cookie.expires) # NoDate
                     THEN <<S_ExpiresEq \o rfc1123Format(iso8601Parse(cookie.expires))>>
                     ELSE <<>>)
                 \o (IF cookie.secure = "true" THEN <<S_Secure>> ELSE <<>>)
                 \o (IF cookie.httpOnly = "true" THEN <<S_HttpOnly>> ELSE <<>>)
    IN  Join(parts, S_semiSpace)

RECURSIVE createCookieData_attributes(_, _)
\* The `for (i in 1 until parts.size)` loop of createCookieData.
createCookieData_attributes(parts, acc) ==
    IF parts = <<>> THEN acc
    ELSE LET part == parts[1]
             next ==
                 CASE StartsWithIgnoreCase(part, S_PathEq) ->
                        [acc EXCEPT !.path = Trim(SubSeq(part, 6, Len(part)))]
                   [] StartsWithIgnoreCase(part, S_DomainEq) ->
                        [acc EXCEPT !.domain = Trim(SubSeq(part, 8, Len(part)))]
                   [] StartsWithIgnoreCase(part, S_ExpiresEq) ->
                        LET date == rfc1123Parse(Trim(SubSeq(part, 9, Len(part))))
                        IN  IF date = NoDate THEN acc
                            ELSE [acc EXCEPT !.expires = iso8601Format(date)]
                   [] Lower(part) = Lower(S_Secure) -> [acc EXCEPT !.secure = "true"]
                   [] Lower(part) = Lower(S_HttpOnly) -> [acc EXCEPT !.httpOnly = "true"]
                   [] OTHER -> acc
         IN  createCookieData_attributes(DropFirst(parts), next)

\* A createCookieData that applies no default to a missing Path.
createCookieData_defaults_domainOnly(parsed, url) ==
    [parsed EXCEPT !.domain = IF parsed.domain = Nil THEN url.host ELSE parsed.domain]

\* if (path == null) path = "/"; if (domain == null) domain = url.host
createCookieData_defaults(parsed, url) ==
    [parsed EXCEPT !.path = IF parsed.path = Nil THEN S_slash ELSE parsed.path,
                   !.domain = IF parsed.domain = Nil THEN url.host ELSE parsed.domain]

\* createCookieData from `val nameValue = parts[0].split("=", limit = 2)` on.
createCookieData_nameValue(parts, nameValue, url) ==
    IF Len(nameValue) # 2 THEN [ok |-> FALSE, cookie |-> Nil]
    ELSE [ok |-> TRUE,
          cookie |-> createCookieData_defaults(
                         createCookieData_attributes(DropFirst(parts),
                             MkCookie(Trim(nameValue[1]), Trim(nameValue[2]),
                                      Nil, Nil, Nil, "null", "null")),
                         url)]

\* Set-Cookie header -> Cookie struct, or no cookie (ok is FALSE).
createCookieData_android(setCookieHeader, url) ==
    createCookieData_nameValue(TrimEach(Split(setCookieHeader, ";")),
                               Split2(TrimEach(Split(setCookieHeader, ";"))[1], "="),
                               url)

isMatchingDomain_android(cookieDomain, urlHost) ==
    IF cookieDomain = urlHost THEN TRUE
    ELSE IF StartsWith(cookieDomain, S_dot)
    THEN LET domain == DropFirst(cookieDomain)
         IN  EndsWith(urlHost, domain) \/ urlHost = domain
    ELSE EndsWith(urlHost, S_dot \o cookieDomain)

validateDomain_android(cookie, url) ==
    IF url.host = Nil THEN "INVALID_URL"
    ELSE LET cookieDomain == IF cookie.domain = Nil THEN url.host ELSE cookie.domain
         IN  IF ~isMatchingDomain_android(cookieDomain, url.host)
             THEN "DOMAIN_MISMATCH" ELSE "ok"

\* Defaults that put an omitted path at /p.
cookieWithDefaults_android_otherPath(cookie, url) ==
    [cookie EXCEPT !.path = IF cookie.path = Nil THEN PATH_P ELSE cookie.path,
                   !.domain = IF cookie.domain = Nil THEN url.host ELSE cookie.domain]

cookieWithDefaults_android(cookie, url) ==
    [cookie EXCEPT !.path = IF cookie.path = Nil THEN S_slash ELSE cookie.path,
                   !.domain = IF cookie.domain = Nil THEN url.host ELSE cookie.domain]

\* A loop that reports the domain with a leading dot.
ParseCookiePairs_dotted(cookiePairs, host) ==
    [i \in 1..Len(cookiePairs) |->
        [name |-> Trim(Split2(cookiePairs[i], "=")[1]),
         value |-> Trim(SubSeq(cookiePairs[i], IndexOf(cookiePairs[i], "=") + 1,
                               Len(cookiePairs[i]))),
         path |-> S_slash, domain |-> S_dot \o host, version |-> Nil,
         expires |-> Nil, secure |-> "null", httpOnly |-> "null"]]

RECURSIVE ParseCookiePairs(_, _)
\* The loop of getSync / get over the "; "-separated pairs of getCookie's string.
ParseCookiePairs(cookiePairs, host) ==
    IF cookiePairs = <<>> THEN <<>>
    ELSE LET nameValue == Split2(cookiePairs[1], "=")
             rest == ParseCookiePairs(DropFirst(cookiePairs), host)
         IN  IF Len(nameValue) = 2
             THEN <<[name |-> Trim(nameValue[1]), value |-> Trim(nameValue[2]),
                     path |-> S_slash, domain |-> host, version |-> Nil,
                     expires |-> Nil, secure |-> "null", httpOnly |-> "null"]>> \o rest
             ELSE rest

getSync_android(st, url) ==
    LET v == validateURL_android(url)
    IN  IF ~v.ok THEN {Throw(st, "INVALID_URL")}
        ELSE {IF cookieString = Nil \/ cookieString = <<>> THEN Return(st, <<>>)
              ELSE Return(st, ParseCookiePairs(TrimEach(Split(cookieString, ";")),
                                           v.url.host)) :
                 cookieString \in CookieManager_getCookie(st.cm, url)}

setSync_android(st, url, cookie) ==
    LET v == validateURL_android(url)
        setCookieString == toRFC6265String(cookieWithDefaults_android(cookie, v.url))
    IN  IF ~v.ok THEN {Throw(st, "INVALID_URL")}
        ELSE IF validateDomain_android(cookie, v.url) # "ok"
        THEN {Throw(st, validateDomain_android(cookie, v.url))}
        ELSE {Outcome("ok", TRUE, st.http, st.wk,
                      CookieManager_setCookie(st.cm, url, setCookieString))}

RECURSIVE SetCookieHeaders(_, _, _)
\* for (header in setCookieHeaders) if (header.isNotEmpty()) setCookie(url, header)
SetCookieHeaders(store, url, setCookieHeaders) ==
    IF setCookieHeaders = <<>> THEN store
    ELSE SetCookieHeaders(
             IF setCookieHeaders[1] # <<>>
             THEN CookieManager_setCookie(store, url, setCookieHeaders[1]) ELSE store,
             url, DropFirst(setCookieHeaders))

setFromResponseSync_android(st, url, value) ==
    LET v == validateURL_android(url)
    IN  IF ~v.ok THEN {Throw(st, "INVALID_URL")}
        ELSE {Outcome("ok", TRUE, st.http, st.wk,
                      SetCookieHeaders(st.cm, url,
                                       TrimEach(Split(value, "\n"))))}

\* "$name=; Path=/; Domain=${host}; Expires=Thu, 01 Jan 1970 00:00:00 GMT"
expiredCookie(name, host) ==
    name \o S_eq \o S_semiSpace \o S_PathEq \o S_slash \o S_semiSpace
    \o S_DomainEq \o host \o S_semiSpace \o S_ExpiresEq \o RFC_1970

clearByNameSync_android(st, url, name) ==
    LET v == validateURL_android(url)
    IN  IF ~v.ok THEN {Throw(st, "INVALID_URL")}
        ELSE {Outcome("ok", TRUE, st.http, st.wk,
                      CookieManager_setCookie(st.cm, url,
                                              expiredCookie(name, HostOf(v.url))))}

set_android(st, url, cookie, useWebKit) ==
    LET v == validateURL_android(url)
        setCookieString == toRFC6265String(cookieWithDefaults_android(cookie, v.url))
    IN  IF ~v.ok THEN {Throw(st, "INVALID_URL")}
        ELSE IF validateDomain_android(cookie, v.url) # "ok"
        THEN {Throw(st, validateDomain_android(cookie, v.url))}
        ELSE {Outcome("ok", TRUE, st.http, st.wk,
                      CookieManager_setCookie(st.cm, url, setCookieString))}

get_android(st, url, useWebKit) ==
    LET v == validateURL_android(url)
    IN  IF ~v.ok THEN {Throw(st, "INVALID_URL")}
        ELSE {IF cookieString = Nil \/ cookieString = <<>> THEN Return(st, <<>>)
              ELSE Return(st, ParseCookiePairs(TrimEach(Split(cookieString, ";")),
                                           v.url.host)) :
                 cookieString \in CookieManager_getCookie(st.cm, url)}

\* removeAllCookies { success -> resume(success) }: the callback's value
\* tells whether any cookie was removed.
clearAll_android(st, useWebKit) ==
    {Outcome("ok", st.cm # {}, st.http, st.wk, {})}

setFromResponse_android(st, url, value) ==
    LET v == validateURL_android(url)
    IN  IF ~v.ok THEN {Throw(st, "INVALID_URL")}
        ELSE {Outcome("ok", TRUE, st.http, st.wk,
                      SetCookieHeaders(st.cm, url,
                                       TrimEach(Split(value, "\n"))))}

clearByName_android(st, url, name, useWebKit) ==
    LET v == validateURL_android(url)
    IN  IF ~v.ok THEN {Throw(st, "INVALID_URL")}
        ELSE {Outcome("ok", TRUE, st.http, st.wk,
                      CookieManager_setCookie(st.cm, url,
                                              expiredCookie(name, HostOf(v.url))))}

\* The whole body, validateURL included, is inside try { } catch (e: Exception)
\* { throw Exception("NETWORK_ERROR: ...") }.
\* cookie?.let { cookies.add(it) }
AddCookie(parsed, cookies) == IF parsed.ok THEN <<parsed.cookie>> \o cookies ELSE cookies

RECURSIVE CookiesOfHeaders(_, _)
\* for (header in setCookieHeaders) createCookieData(header, urlObj)?.let { cookies.add(it) }
CookiesOfHeaders(setCookieHeaders, url) ==
    IF setCookieHeaders = <<>> THEN <<>>
    ELSE AddCookie(createCookieData_android(setCookieHeaders[1], url),
                   CookiesOfHeaders(DropFirst(setCookieHeaders), url))

getFromResponse_android(st, url, response) ==
    LET v == validateURL_android(url)
        setCookieHeaders == IF response = <<>> THEN <<>> ELSE <<response>>
    IN  IF ~v.ok THEN {Throw(st, "NETWORK_ERROR")}
        ELSE IF response = NetworkFailure THEN {Throw(st, "NETWORK_ERROR")}
        ELSE {Return(st, CookiesOfHeaders(setCookieHeaders, v.url))}

getAll_android(st, useWebKit) == {Throw(st, "PLATFORM_UNSUPPORTED")}

\* cookieManager.flush() writes the store to disk.
flush_android(st) == {Return(st, Nil)}

\* removeSessionCookies { success -> resume(success) }: the cookies without
\* an expiry date go; the callback's value tells whether any was removed.
removeSessionCookies_android(st) ==
    {Outcome("ok", \E c \in st.cm : c.expires = NoDate, st.http, st.wk,
             {c \in st.cm : c.expires # NoDate})}

(***************************************************************************)
(* Public API: index.tsx                                                   *)
(***************************************************************************)
\* JavaScript values handed to the caller: an array of cookies, or an
\* object whose own properties are cookies.
JsArray(items) == [kind |-> "array", items |-> items]

JsObject(entries) == [kind |-> "object", entries |-> entries]

JsBoolean(bool) == [kind |-> "boolean", bool |-> bool]

Undefined == [kind |-> "undefined"]

\* value[key] for a key that is a cookie name (never an array index).
JsProperty(value, key) ==
    IF value.kind = "object" /\ key \in DOMAIN value.entries
    THEN value.entries[key] ELSE Undefined

\* Object.keys(value).length
JsKeyCount(value) ==
    IF value.kind = "object" THEN Cardinality(DOMAIN value.entries)
    ELSE Len(value.items)

\* The cookies a result carries.
JsCookies(value) ==
    IF value.kind = "object" THEN {value.entries[k] : k \in DOMAIN value.entries}
    ELSE {value.items[i] : i \in 1..Len(value.items)}

\* result[cookie.name] = cookie for each cookie in turn: the last cookie of
\* a name is the one kept.
cookiesToDictionary(cookies) ==
    [n \in {cookies[i].name : i \in 1..Len(cookies)} |->
        cookies[CHOOSE i \in 1..Len(cookies) :
                    /\ cookies[i].name = n
                    /\ \A j \in 1..Len(cookies) : cookies[j].name = n => j <= i]]

\* A default of true for an omitted useWebKit.
OrTrue(useWebKit) == IF useWebKit = "undefined" THEN TRUE ELSE useWebKit = "true"

\* useWebKit ?? false
OrFalse(useWebKit) == IF useWebKit = "undefined" THEN FALSE ELSE useWebKit = "true"

\* What the caller gets: the converted value, or nothing when the call threw.
WithValue(o, value) == [o EXCEPT !.value = IF o.status = "ok" THEN value ELSE Undefined]

\* Every method calls NitroModules.createHybridObject('NitroCookies'), the
\* platform's adapter, and converts what it returns.
NitroCookies_getSync(st, url) ==
    {WithValue(o, JsArray(o.value)) :
        o \in (IF platform = "ios" THEN getSync_ios(st, url)
               ELSE getSync_android(st, url))}

NitroCookies_setSync(st, url, cookie) ==
    {WithValue(o, JsBoolean(o.value)) :
        o \in (IF platform = "ios" THEN setSync_ios(st, url, cookie)
               ELSE setSync_android(st, url, cookie))}

NitroCookies_setFromResponseSync(st, url, value) ==
    {WithValue(o, JsBoolean(o.value)) :
        o \in (IF platform = "ios" THEN setFromResponseSync_ios(st, url, value)
               ELSE setFromResponseSync_android(st, url, value))}

NitroCookies_clearByNameSync(st, url, name) ==
    {WithValue(o, JsBoolean(o.value)) :
        o \in (IF platform = "ios" THEN clearByNameSync_ios(st, url, name)
               ELSE clearByNameSync_android(st, url, name))}

NitroCookies_set(st, url, cookie, useWebKit) ==
    {WithValue(o, JsBoolean(o.value)) :
        o \in (IF platform = "ios" THEN set_ios(st, url, cookie, OrFalse(useWebKit))
               ELSE set_android(st, url, cookie, OrFalse(useWebKit)))}

NitroCookies_get(st, url, useWebKit) ==
    {WithValue(o, JsObject(cookiesToDictionary(o.value))) :
        o \in (IF platform = "ios" THEN get_ios(st, url, OrFalse(useWebKit))
               ELSE get_android(st, url, OrFalse(useWebKit)))}

NitroCookies_clearAll(st, useWebKit) ==
    {WithValue(o, JsBoolean(o.value)) :
        o \in (IF platform = "ios" THEN clearAll_ios(st, OrFalse(useWebKit))
               ELSE clearAll_android(st, OrFalse(useWebKit)))}

NitroCookies_setFromResponse(st, url, value) ==
    {WithValue(o, JsBoolean(o.value)) :
        o \in (IF platform = "ios" THEN setFromResponse_ios(st, url, value)
               ELSE setFromResponse_android(st, url, value))}

NitroCookies_clearByName(st, url, name, useWebKit) ==
    {WithValue(o, JsBoolean(o.value)) :
        o \in (IF platform = "ios" THEN clearByName_ios(st, url, name, OrFalse(useWebKit))
               ELSE clearByName_android(st, url, name, OrFalse(useWebKit)))}

NitroCookies_getFromResponse(st, url, response) ==
    {WithValue(o, JsObject(cookiesToDictionary(o.value))) :
        o \in (IF platform = "ios" THEN getFromResponse_ios(st, url, response)
               ELSE getFromResponse_android(st, url, response))}

NitroCookies_getAll(st, useWebKit) ==
    {WithValue(o, JsObject(cookiesToDictionary(o.value))) :
        o \in (IF platform = "ios" THEN getAll_ios(st, OrFalse(useWebKit))
               ELSE getAll_android(st, OrFalse(useWebKit)))}

\* Promise<void>
NitroCookies_flush(st) ==
    {WithValue(o, Undefined) :
        o \in (IF platform = "ios" THEN flush_ios(st)
               ELSE flush_android(st))}

NitroCookies_removeSessionCookies(st) ==
    {WithValue(o, JsBoolean(o.value)) :
        o \in (IF platform = "ios" THEN removeSessionCookies_ios(st)
               ELSE removeSessionCookies_android(st))}

(***************************************************************************)
(* The state machine.  The JavaScript caller is single-threaded: it makes   *)
(* one call of the public API, which runs to completion (a sync call       *)
(* returned or threw, an awaited promise settled) and leaves its outcome   *)
(* in `last`; the caller then goes on to its next call.                    *)
(***************************************************************************)
Call(op, url, name, cookie, header, useWebKit) ==
    [op |-> op, url |-> url, name |-> name, cookie |-> cookie, header |-> header,
     useWebKit |-> useWebKit, status |-> "ok", value |-> Undefined]

\* The cookie argument of a call that takes none.
NoCookie == MkCookie(Nil, Nil, Nil, Nil, Nil, "null", "null")

\* The cookie stores of the device, as the native calls see them.
Stores == [http |-> httpStorage, wk |-> webkitStore, cm |-> cookieManager]

NoCall == Call("none", Nil, Nil, NoCookie, Nil, FALSE)

\* A Promise.async body not yet started.  pc is the place of the body,
\* awaits and resumes count the continuations it created and those resumed,
\* settled counts the times its promise was resolved or rejected.
NewTask ==
    [op |-> "none", pc |-> "new", name |-> Nil, host |-> Nil, cookies |-> <<>>,
     awaits |-> 0, resumes |-> 0, settled |-> 0, value |-> "pending"]

\* The asynchronous calls a checked run makes concurrently.
TaskIds == 1..3

Init ==
    /\ platform \in {"ios", "android"}
    /\ httpStorage = {}
    /\ webkitStore = {}
    /\ cookieManager = {}
    /\ last = NoCall
    /\ tasks = [t \in TaskIds |-> NewTask]

\* The caller holds no result and is free to make a call.
Idle == last.op = "none"

\* The call ends with outcome o.
Finish(call, o) ==
    /\ Cardinality(o.http) + Cardinality(o.wk) + Cardinality(o.cm) <= MaxCookies
    /\ httpStorage' = o.http
    /\ webkitStore' = o.wk
    /\ cookieManager' = o.cm
    /\ last' = [call EXCEPT !.status = o.status, !.value = o.value]
    /\ UNCHANGED <<platform, tasks>>

GetSync ==
    /\ Idle
    /\ \E url \in UrlInputs : \E o \in NitroCookies_getSync(Stores, url) :
           Finish(Call("getSync", url, Nil, NoCookie, Nil, FALSE), o)

SetSync ==
    /\ Idle
    /\ \E arg \in SetInputs : \E o \in NitroCookies_setSync(Stores, arg[1], arg[2]) :
           Finish(Call("setSync", arg[1], Nil, arg[2], Nil, FALSE), o)

SetFromResponseSync ==
    /\ Idle
    /\ \E arg \in SetFromResponseInputs :
           \E o \in NitroCookies_setFromResponseSync(Stores, arg[1], arg[2]) :
               Finish(Call("setFromResponseSync", arg[1], Nil, NoCookie, arg[2], FALSE), o)

ClearByNameSync ==
    /\ Idle
    /\ \E url \in UrlInputs, name \in NameInputs :
           \E o \in NitroCookies_clearByNameSync(Stores, url, name) :
               Finish(Call("clearByNameSync", url, name, NoCookie, Nil, FALSE), o)

Set ==
    /\ Idle
    /\ \E arg \in SetInputs, useWebKit \in UseWebKitInputs :
           \E o \in NitroCookies_set(Stores, arg[1], arg[2], useWebKit) :
               Finish(Call("set", arg[1], Nil, arg[2], Nil, OrFalse(useWebKit)), o)

Get ==
    /\ Idle
    /\ \E url \in UrlInputs, useWebKit \in UseWebKitInputs :
           \E o \in NitroCookies_get(Stores, url, useWebKit) :
               Finish(Call("get", url, Nil, NoCookie, Nil, OrFalse(useWebKit)), o)

ClearAll ==
    /\ Idle
    /\ \E useWebKit \in UseWebKitInputs : \E o \in NitroCookies_clearAll(Stores, useWebKit) :
           Finish(Call("clearAll", Nil, Nil, NoCookie, Nil, OrFalse(useWebKit)), o)

SetFromResponse ==
    /\ Idle
    /\ \E arg \in SetFromResponseInputs :
           \E o \in NitroCookies_setFromResponse(Stores, arg[1], arg[2]) :
               Finish(Call("setFromResponse", arg[1], Nil, NoCookie, arg[2], FALSE), o)

ClearByName ==
    /\ Idle
    /\ \E url \in UrlInputs, name \in NameInputs, useWebKit \in UseWebKitInputs :
           \E o \in NitroCookies_clearByName(Stores, url, name, useWebKit) :
               Finish(Call("clearByName", url, name, NoCookie, Nil, OrFalse(useWebKit)), o)

\* The server's answer is carried in the call's header field.
GetFromResponse ==
    /\ Idle
    /\ \E url \in ValidUrlInputs \cup InvalidUrlInputs, response \in ResponseInputs :
           \E o \in NitroCookies_getFromResponse(Stores, url, response) :
               Finish(Call("getFromResponse", url, Nil, NoCookie, response, FALSE), o)

GetAll ==
    /\ Idle
    /\ \E useWebKit \in UseWebKitInputs : \E o \in NitroCookies_getAll(Stores, useWebKit) :
           Finish(Call("getAll", Nil, Nil, NoCookie, Nil, OrFalse(useWebKit)), o)

Flush ==
    /\ Idle
    /\ \E o \in NitroCookies_flush(Stores) :
           Finish(Call("flush", Nil, Nil, NoCookie, Nil, FALSE), o)

RemoveSessionCookies ==
    /\ Idle
    /\ \E o \in NitroCookies_removeSessionCookies(Stores) :
           Finish(Call("removeSessionCookies", Nil, Nil, NoCookie, Nil, FALSE), o)

\* The caller is done with the outcome of its last call.
Continue ==
    /\ last.op # "none"
    /\ last' = NoCall
    /\ UNCHANGED <<platform, httpStorage, webkitStore, cookieManager, tasks>>

Next ==
    \/ GetSync
    \/ SetSync
    \/ SetFromResponseSync
    \/ ClearByNameSync
    \/ Set
    \/ Get
    \/ ClearAll
    \/ SetFromResponse
    \/ ClearByName
    \/ GetFromResponse
    \/ GetAll
    \/ Flush
    \/ RemoveSessionCookies
    \/ Continue

Spec == Init /\ [][Next]_vars

(***************************************************************************)
(* The asynchronous calls step by step.  A Promise.async body runs up to   *)
(* each withCheckedContinuation / suspendCoroutine, where it hands a       *)
(* completion handler to the native store and waits; the handler resumes   *)
(* the continuation; the promise settles when the body returns or throws.  *)
(* Bodies of different calls interleave at these points.  On iOS the calls *)
(* are made with useWebKit = true.                                         *)
(***************************************************************************)
\* set(url, cookie, true) calls of the concurrent callers.
AsyncSetInputs ==
    {<<URL_EC, MkCookie(NAME_N, VAL_V, Nil, Nil, Nil, "null", "null")>>,
     <<URL_EC, MkCookie(NAME_M, VAL_V, PATH_P, DOT_EC, ISO_BAD, "true", "false")>>,
     <<URL_XEC, MkCookie(NAME_M, VAL_V, PATH_P, DOT_EC, ISO_BAD, "true", "false")>>,
     <<URL_BAD, MkCookie(NAME_N, VAL_V, Nil, Nil, Nil, "null", "null")>>}

\* withCheckedContinuation { continuation in store.<call> { ... } }
Awaiting(task, pc) == [task EXCEPT !.pc = pc, !.awaits = @ + 1]

\* continuation.resume(returning:)
Resumed(task, pc) == [task EXCEPT !.pc = pc, !.resumes = @ + 1]

\* return value / throw: the body ends.
Returning(task, value) == [task EXCEPT !.pc = "return", !.value = value]

\* set with useWebKit == true, up to store.setCookie(httpCookie) { ... }.
set_ios_body(task, v, cookie) ==
    IF ~v.ok THEN Returning(task, "INVALID_URL")
    ELSE IF validateDomain_ios(cookie, v.url) # "ok"
    THEN Returning(task, validateDomain_ios(cookie, v.url))
    ELSE IF ~makeHTTPCookie(cookieWithDefaults_ios(cookie, v.url), v.url).ok
    THEN Returning(task, "error")
    ELSE Awaiting([task EXCEPT !.cookies =
                      <<makeHTTPCookie(cookieWithDefaults_ios(cookie, v.url), v.url).cookie>>],
                  "setCookie")

\* clearByName with useWebKit == true, up to store.getAllCookies { ... }.
clearByName_ios_body(task, v, name) ==
    IF ~v.ok THEN Returning(task, "INVALID_URL")
    ELSE Awaiting([task EXCEPT !.name = name, !.host = HostOf(v.url)], "getAllCookies")

\* for cookie in cookies { await ... store.delete(cookie) { resume } };
\* return true: the body after a resume, rest being the cookies to delete.
delete_next(task, rest) ==
    IF rest = <<>> THEN Resumed([task EXCEPT !.cookies = rest, !.value = "true"], "return")
    ELSE Awaiting(Resumed([task EXCEPT !.cookies = rest], "delete"), "delete")

\* cookies.first { $0.name == name && isMatchingDomain($0.domain, host) }:
\* the cookie to delete, none when no cookie matches.
matchingCookie(cookies, name, host) ==
    LET I == {i \in 1..Len(cookies) :
                 /\ cookies[i].name = name
                 /\ isMatchingDomain_ios(cookies[i].domain, host)}
    IN  IF I = {} THEN <<>> ELSE <<cookies[CHOOSE i \in I : \A j \in I : i <= j]>>

\* A completion handler that resumes nothing when no cookie matches.
clearByName_ios_found_noElse(task, match) ==
    IF match = <<>> THEN task
    ELSE Awaiting(Resumed([task EXCEPT !.cookies = match], "delete"), "delete")

\* clearByName after getAllCookies: delete the match and return true, or
\* return false.
clearByName_ios_found(task, match) ==
    IF match = <<>> THEN Resumed([task EXCEPT !.value = "false"], "return")
    ELSE Awaiting(Resumed([task EXCEPT !.cookies = match], "delete"), "delete")

InitAsync ==
    /\ platform \in {"ios", "android"}
    /\ httpStorage = {}
    /\ webkitStore = {}
    /\ cookieManager \in
           IF platform = "ios" THEN {{}}
           ELSE {{}, CookieManager_setCookie({}, URL_EC, NAME_N \o S_eq \o VAL_V)}
    /\ last = NoCall
    /\ tasks = [t \in TaskIds |-> NewTask]

\* Task t goes on as `task`; the stores are given by the caller.
Step(t, task) ==
    /\ tasks' = [tasks EXCEPT ![t] = task]
    /\ UNCHANGED <<platform, httpStorage, last>>

SetStart(t) ==
    /\ platform = "ios" /\ tasks[t].pc = "new"
    /\ \E arg \in AsyncSetInputs :
           Step(t, set_ios_body([tasks[t] EXCEPT !.op = "set"],
                                validateURL_ios(arg[1]), arg[2]))
    /\ UNCHANGED <<webkitStore, cookieManager>>

\* WebKit stores the cookie and calls the completion handler.
SetCookieCompletion(t) ==
    /\ tasks[t].pc = "setCookie"
    /\ webkitStore' = StoreSetCookie(webkitStore, tasks[t].cookies[1])
    /\ Step(t, Resumed([tasks[t] EXCEPT !.value = "true"], "return"))
    /\ UNCHANGED cookieManager

ClearAllStart(t) ==
    /\ tasks[t].pc = "new"
    /\ Step(t, Awaiting([tasks[t] EXCEPT !.op = "clearAll"],
                         IF platform = "ios" THEN "getAllCookies"
                         ELSE "removeAllCookies"))
    /\ UNCHANGED <<webkitStore, cookieManager>>

ClearByNameStart(t) ==
    /\ platform = "ios" /\ tasks[t].pc = "new"
    /\ \E url \in {URL_EC, URL_BAD}, name \in NameInputs :
           Step(t, clearByName_ios_body([tasks[t] EXCEPT !.op = "clearByName"],
                                        validateURL_ios(url), name))
    /\ UNCHANGED <<webkitStore, cookieManager>>

\* WebKit hands the store's cookies, in some order, to the completion handler.
GetAllCookiesCompletion(t) ==
    /\ tasks[t].pc = "getAllCookies"
    /\ \E cookies \in Orderings(webkitStore) :
           Step(t, IF tasks[t].op = "clearAll" THEN delete_next(tasks[t], cookies)
                   ELSE clearByName_ios_found(tasks[t],
                            matchingCookie(cookies, tasks[t].name, tasks[t].host)))
    /\ UNCHANGED <<webkitStore, cookieManager>>

\* WebKit deletes the cookie and calls the completion handler.
DeleteCompletion(t) ==
    /\ tasks[t].pc = "delete"
    /\ webkitStore' = StoreDeleteCookie(webkitStore, tasks[t].cookies[1])
    /\ Step(t, delete_next(tasks[t], DropFirst(tasks[t].cookies)))
    /\ UNCHANGED cookieManager

\* cookieManager.removeAllCookies { success -> continuation.resume(success) }
RemoveAllCookiesCallback(t) ==
    /\ tasks[t].pc = "removeAllCookies"
    /\ cookieManager' = {}
    /\ Step(t, Resumed([tasks[t] EXCEPT !.value =
                            IF cookieManager # {} THEN "true" ELSE "false"], "return"))
    /\ UNCHANGED webkitStore

\* The body has ended: Promise.async resolves or rejects the promise.
PromiseSettle(t) ==
    /\ tasks[t].pc = "return"
    /\ Step(t, [tasks[t] EXCEPT !.pc = "done", !.settled = @ + 1])
    /\ UNCHANGED <<webkitStore, cookieManager>>

NextAsync ==
    \E t \in TaskIds :
        \/ SetStart(t)
        \/ ClearAllStart(t)
        \/ ClearByNameStart(t)
        \/ SetCookieCompletion(t)
        \/ GetAllCookiesCompletion(t)
        \/ DeleteCompletion(t)
        \/ RemoveAllCookiesCallback(t)
        \/ PromiseSettle(t)

SpecAsync == InitAsync /\ [][NextAsync]_vars

\* Every completion handler handed to a native store is invoked, and a
\* body whose continuation was resumed runs on to its end.
FairSpecAsync ==
    /\ SpecAsync
    /\ \A t \in TaskIds :
           /\ WF_vars(SetCookieCompletion(t))
           /\ WF_vars(GetAllCookiesCompletion(t))
           /\ WF_vars(DeleteCompletion(t))
           /\ WF_vars(RemoveAllCookiesCallback(t))
           /\ WF_vars(PromiseSettle(t))

(***************************************************************************)
(* Vocabulary of the properties                                            *)
(***************************************************************************)
Succeeded(ops) == last.op \in ops /\ last.status = "ok"

\* The useWebKit argument that repeats a call's choice of store.
AsArgument(useWebKit) == IF useWebKit THEN "true" ELSE "false"

OkOutcomes(outcomes) == {o \in outcomes : o.status = "ok"}

JsHas(value, key) == value.kind = "object" /\ key \in DOMAIN value.entries

\* Every cookie some get(url, useWebKit) / getSync(url) made with the
\* stores st may report.
ReportedCookies(st, url, useWebKit) ==
    UNION {JsCookies(g.value) : g \in OkOutcomes(NitroCookies_get(st, url, useWebKit))}

SyncReportedCookies(st, url) ==
    UNION {JsCookies(g.value) : g \in OkOutcomes(NitroCookies_getSync(st, url))}

IsHttps(url) == ParseURL(url).scheme = S_https

\* The store a call without / with useWebKit works on.
SelectedStore(st, useWebKit) ==
    IF platform = "android" THEN st.cm
    ELSE IF useWebKit THEN st.wk ELSE st.http

\* The cookie's domain is the host or one of its parent domains.
CoversHost(cookieDomain, host) ==
    LET bare == IF StartsWith(cookieDomain, S_dot) THEN DropFirst(cookieDomain)
                ELSE cookieDomain
    IN  host = bare \/ EndsWith(host, S_dot \o bare)

\* result[name] is a cookie carrying this name and value.
HoldsEntry(value, name, cookieValue) ==
    /\ JsHas(value, name)
    /\ JsProperty(value, name).name = name
    /\ JsProperty(value, name).value = cookieValue

\* A step in which the caller makes one of the calls `ops`.
IsCall(ops) == Idle /\ last'.op \in ops

(***************************************************************************)
(* C1..C10                                                                 *)
(***************************************************************************)
C1_Case ==
    /\ Succeeded({"set", "setSync"})
    /\ IsHttps(last.url)
    /\ last.cookie.expires = Nil
    /\ \/ last.cookie.path = Nil
       \/ PathMatches(last.cookie.path, ParseURL(last.url).path)

\* C1: after set / setSync succeeded for an https URL with a cookie that has
\* no expires and whose path is omitted or covers the URL's path, the next
\* get(url) (same store) and the next getSync(url) hold, under cookie.name,
\* a cookie with the name and the value written.
C1_ReadBackAfterSet ==
    C1_Case =>
        /\ \A g \in NitroCookies_get(Stores, last.url, AsArgument(last.useWebKit)) :
               g.status = "ok" /\ HoldsEntry(g.value, last.cookie.name, last.cookie.value)
        /\ ~last.useWebKit =>
               \A g \in NitroCookies_getSync(Stores, last.url) :
                   g.status = "ok"
                   /\ HoldsEntry(g.value, last.cookie.name, last.cookie.value)

\* C2: getSync(url) returns an object keyed by cookie name, as get(url)
\* does: every cookie it carries is result[cookie.name], and with no cookie
\* for url it is the empty object.
C2_GetSyncReturnsMap ==
    Succeeded({"getSync"}) =>
        /\ last.value.kind = "object"
        /\ \A c \in JsCookies(last.value) : JsProperty(last.value, c.name) = c

\* C3: clearByNameSync / clearByName with a valid URL return true exactly
\* when a cookie of that name matching the URL was stored just before.
\* "Matching" is read in the claim's favour: true needs some stored cookie of
\* the name, and a cookie of the name that get(url) reported needs true.
C3_ClearByNameTellsFound ==
    [][IsCall({"clearByName", "clearByNameSync"}) =>
          \A call \in {last'} :
              call.status = "ok" =>
                  /\ call.value = JsBoolean(TRUE) =>
                         \E c \in SelectedStore(Stores, call.useWebKit) : c.name = call.name
                  /\ (\E c \in ReportedCookies(Stores, call.url, AsArgument(call.useWebKit)) :
                          c.name = call.name) => call.value = JsBoolean(TRUE)]_vars

\* C4: after clearByNameSync / clearByName returned, get(url) (same store)
\* and getSync(url) report no cookie of that name.
C4_GoneAfterClearByName ==
    Succeeded({"clearByName", "clearByNameSync"}) =>
        /\ \A c \in ReportedCookies(Stores, last.url, AsArgument(last.useWebKit)) :
               c.name # last.name
        /\ ~last.useWebKit =>
               \A c \in SyncReportedCookies(Stores, last.url) : c.name # last.name

\* Every cookie of S of another name, or of a domain that is neither the
\* host nor a parent of it, is unchanged in T.
KeptIn(S, T, name, host) ==
    \A c \in S : (c.name # name \/ ~CoversHost(c.domain, host)) => c \in T

\* C5: clearByNameSync / clearByName remove only the named cookie: in every
\* store a cookie of another name, or of a domain that is neither the URL's
\* host nor a parent of it, stays as it was; and every cookie of another
\* name that get / getSync reported before the call, for any URL, is still
\* reported after it with the same value.
C5_ClearByNameKeepsOthers ==
    [][IsCall({"clearByName", "clearByNameSync"}) =>
          \A call \in {last'}, after \in {Stores'} :
              call.status = "ok" =>
                  /\ KeptIn(httpStorage, after.http, call.name, HostOf(ParseURL(call.url)))
                  /\ KeptIn(webkitStore, after.wk, call.name, HostOf(ParseURL(call.url)))
                  /\ KeptIn(cookieManager, after.cm, call.name, HostOf(ParseURL(call.url)))
                  /\ \A u \in UrlInputs :
                         /\ \A w \in {"false", "true"} :
                                {c \in ReportedCookies(Stores, u, w) : c.name # call.name}
                                    \subseteq ReportedCookies(after, u, w)
                         /\ {c \in SyncReportedCookies(Stores, u) : c.name # call.name}
                                \subseteq SyncReportedCookies(after, u)]_vars

\* A clearByName / clearByNameSync of a stored cookie has returned, the name
\* is gone and a cookie of another name is still reported for the URL.
C5_Witness ==
    /\ Succeeded({"clearByName", "clearByNameSync"})
    /\ last.value = JsBoolean(TRUE)
    /\ \A c \in ReportedCookies(Stores, last.url, AsArgument(last.useWebKit)) :
           c.name # last.name
    /\ ReportedCookies(Stores, last.url, AsArgument(last.useWebKit)) # {}

\* C6: after clearAll() resolved, get(url) (same store) and getSync(url)
\* return the empty object for every valid URL.
C6_EmptyMapAfterClearAll ==
    Succeeded({"clearAll"}) =>
        \A u \in UrlInputs :
            /\ \A g \in OkOutcomes(NitroCookies_get(Stores, u, AsArgument(last.useWebKit))) :
                   g.value.kind = "object" /\ JsKeyCount(g.value) = 0
            /\ ~last.useWebKit =>
                   \A g \in OkOutcomes(NitroCookies_getSync(Stores, u)) :
                       g.value.kind = "object" /\ JsKeyCount(g.value) = 0

\* C7: clearAll() resolves to true in every state, the empty store
\* included, and leaves the store empty.
C7_ClearAllResolvesTrue ==
    last.op = "clearAll" =>
        /\ last.status = "ok"
        /\ last.value = JsBoolean(TRUE)
        /\ SelectedStore(Stores, last.useWebKit) = {}

\* The stored cookies a set(url, cookie) puts into an empty store.
WrittenBySet(url, cookie) ==
    IF platform = "ios"
    THEN {makeHTTPCookie(cookieWithDefaults_ios(cookie, ParseURL(url)), ParseURL(url)).cookie}
    ELSE CookieManager_setCookie({}, url,
             toRFC6265String(cookieWithDefaults_android(cookie, ParseURL(url))))

\* The store holds one cookie of the name, the one an earlier set(url, c0)
\* wrote, c0 having the name, domain and path of cookie.
SetBefore(url, cookie) ==
    \E c0 \in CookieInputs :
        /\ c0.name = cookie.name /\ c0.domain = cookie.domain /\ c0.path = cookie.path
        /\ WrittenBySet(url, c0) # {}
        /\ {c \in SelectedStore(Stores, FALSE) : c.name = cookie.name} = WrittenBySet(url, c0)

\* C8: a second set / setSync for the same URL of a cookie with the same
\* name, domain and path (not already expired, its path omitted or covering
\* the URL's) overwrites the first: getSync(url) then holds exactly one
\* cookie of the name, with the later value, and no more cookies than before.
C8_SecondSetOverwrites ==
    [][IsCall({"set", "setSync"}) =>
          \A call \in {last'}, after \in {Stores'} :
              (/\ call.status = "ok" /\ ~call.useWebKit
               /\ call.cookie.expires # ISO_1970
               /\ \/ call.cookie.path = Nil
                  \/ PathMatches(call.cookie.path, ParseURL(call.url).path)
               /\ SetBefore(call.url, call.cookie)) =>
                  \A g \in NitroCookies_getSync(after, call.url) :
                      /\ g.status = "ok"
                      /\ Cardinality({i \in 1..Len(g.value.items) :
                                         g.value.items[i].name = call.cookie.name}) = 1
                      /\ \A i \in 1..Len(g.value.items) :
                             g.value.items[i].name = call.cookie.name
                                 => g.value.items[i].value = call.cookie.value
                      /\ \A g0 \in OkOutcomes(NitroCookies_getSync(Stores, call.url)) :
                             Len(g.value.items) <= Len(g0.value.items)]_vars

\* C9: the sync and the async operations without useWebKit work on one
\* store: the cookie a set / setSync wrote (an https URL, no expires, a path
\* that is omitted or covers the URL's) is among the cookies of a later
\* get(url) and getSync(url), and in every state get(url) and getSync(url)
\* report the same set of cookies.
C9_SyncAsyncSameCookies ==
    /\ (C1_Case /\ ~last.useWebKit) =>
           \A g \in NitroCookies_get(Stores, last.url, "undefined")
                        \cup NitroCookies_getSync(Stores, last.url) :
               /\ g.status = "ok"
               /\ \E c \in JsCookies(g.value) :
                      c.name = last.cookie.name /\ c.value = last.cookie.value
    /\ \A u \in UrlInputs :
           \A g \in NitroCookies_get(Stores, u, "undefined"),
              s \in NitroCookies_getSync(Stores, u) :
               /\ g.status = s.status
               /\ g.status = "ok" => JsCookies(g.value) = JsCookies(s.value)

\* C10: on iOS a set, get, clearByName or clearAll with useWebKit=true
\* leaves HTTPCookieStorage, and what get(url, false) and getSync(url)
\* report, as they were, reads the WebKit store alone and (clearAll) leaves
\* it empty; without useWebKit the same holds with the stores exchanged.
C10_StoresIsolated ==
    [][(IsCall({"set", "get", "clearByName", "clearAll"}) /\ platform = "ios") =>
          \A call \in {last'}, after \in {Stores'} :
              LET used == SelectedStore(Stores, call.useWebKit)
                  other == AsArgument(~call.useWebKit)
              IN  /\ call.useWebKit => after.http = httpStorage
                  /\ ~call.useWebKit => after.wk = webkitStore
                  /\ \A u \in UrlInputs :
                         ReportedCookies(after, u, other) = ReportedCookies(Stores, u, other)
                  /\ (call.op = "get" /\ call.status = "ok") =>
                         JsCookies(call.value) \subseteq {createCookieData_ios(c) : c \in used}
                  /\ (call.op = "clearByName" /\ call.value = JsBoolean(TRUE)) =>
                         \E c \in used : c.name = call.name
                  /\ (call.op = "clearAll") =>
                         /\ call.status = "ok"
                         /\ SelectedStore(after, call.useWebKit) = {}]_vars

\* clearByName(url, name, true) removed the cookie from the WebKit store
\* while HTTPCookieStorage still holds a cookie of that name.
C10_Witness ==
    /\ platform = "ios"
    /\ Succeeded({"clearByName"})
    /\ last.useWebKit
    /\ last.value = JsBoolean(TRUE)
    /\ \E c \in httpStorage : c.name = last.name
    /\ \A c \in webkitStore : c.name # last.name

(***************************************************************************)
(* C11..C20                                                                *)
(***************************************************************************)
UrlTakingOps ==
    {"getSync", "setSync", "setFromResponseSync", "clearByNameSync",
     "get", "set", "setFromResponse", "clearByName"}

\* The URL is empty or does not begin with http:// or https://.
LacksHttpScheme(url) ==
    /\ ~StartsWith(url, S_http \o S_schemeSep)
    /\ ~StartsWith(url, S_https \o S_schemeSep)

\* C11: getSync, setSync, setFromResponseSync, clearByNameSync, get, set,
\* setFromResponse and clearByName called with a URL that is empty or has no
\* http:// or https:// scheme fail with INVALID_URL and leave every cookie
\* store as it was.
C11_InvalidUrlFails ==
    [][IsCall(UrlTakingOps) =>
          \A call \in {last'}, after \in {Stores'} :
              LacksHttpScheme(call.url) =>
                  /\ call.status = "INVALID_URL"
                  /\ after = Stores]_vars

\* A call with the URL ftp://example.com has failed with INVALID_URL while
\* a store holds a cookie.
C11_Witness ==
    /\ last.op \in UrlTakingOps
    /\ last.url = URL_FTP
    /\ last.status = "INVALID_URL"
    /\ httpStorage \cup cookieManager # {}

\* C12: set / setSync with a cookie.domain that is neither the URL's host nor
\* a parent domain of it fail with DOMAIN_MISMATCH and write nothing; with
\* an invalid URL as well, the failure is INVALID_URL (the URL is checked
\* first).
C12_DomainMismatchFails ==
    [][IsCall({"set", "setSync"}) =>
          \A call \in {last'}, after \in {Stores'} :
              (/\ call.cookie.domain # Nil
               /\ ~CoversHost(call.cookie.domain, HostOf(ParseURL(call.url)))) =>
                  /\ call.status = IF LacksHttpScheme(call.url) THEN "INVALID_URL"
                                   ELSE "DOMAIN_MISMATCH"
                  /\ after = Stores]_vars

\* The method belongs to the other platform.
OnWrongPlatform(op) ==
    \/ platform = "android" /\ op = "getAll"
    \/ platform = "ios" /\ op \in {"flush", "removeSessionCookies"}

\* C13: getAll() on Android, and flush() and removeSessionCookies() on iOS,
\* reject with PLATFORM_UNSUPPORTED and change no store.
C13_WrongPlatformRejects ==
    [][IsCall({"getAll", "flush", "removeSessionCookies"}) =>
          \A call \in {last'}, after \in {Stores'} :
              OnWrongPlatform(call.op) =>
                  /\ call.status = "PLATFORM_UNSUPPORTED"
                  /\ after = Stores]_vars

\* C14: setFromResponse(url, value) with a valid URL and a Set-Cookie value
\* that holds no name=value pair rejects with PARSE_ERROR.
C14_MalformedHeaderRejects ==
    (/\ last.op = "setFromResponse"
     /\ ~LacksHttpScheme(last.url)
     /\ IndexOf(last.header, "=") = 0) => last.status = "PARSE_ERROR"

\* C15: getFromResponse(url) rejects with INVALID_URL when the URL is empty
\* or has no http / https scheme, and rejects with NETWORK_ERROR only when
\* the URL is valid and the request failed.
C15_GetFromResponseErrors ==
    last.op = "getFromResponse" =>
        /\ LacksHttpScheme(last.url) => last.status = "INVALID_URL"
        /\ last.status = "NETWORK_ERROR" =>
               ~LacksHttpScheme(last.url) /\ last.header = NetworkFailure

\* A cookie domain without its leading dot.
WithoutDot(domain) == IF StartsWith(domain, S_dot) THEN DropFirst(domain) ELSE domain

\* C16: on iOS the result of getAll() holds, for every cookie of the
\* selected store, a cookie of the same name, domain and path, also when
\* two stored cookies have one name on different domains.
C16_GetAllReturnsEveryCookie ==
    (platform = "ios" /\ Succeeded({"getAll"})) =>
        \A c \in SelectedStore(Stores, last.useWebKit) :
            \E r \in JsCookies(last.value) :
                /\ r.name = c.name
                /\ WithoutDot(r.domain) = WithoutDot(c.domain)
                /\ r.path = c.path

\* The flag as a cookie read back carries it: false when omitted.
FlagWritten(flag) == IF flag = "true" THEN "true" ELSE "false"

\* The entry read back has the properties of the cookie written; path and
\* domain are compared when the cookie gives them, the domain without its
\* leading dot.
SameProperties(entry, cookie) ==
    /\ entry.name = cookie.name
    /\ entry.value = cookie.value
    /\ cookie.path # Nil => entry.path = cookie.path
    /\ cookie.domain # Nil => entry.domain = WithoutDot(cookie.domain)
    /\ entry.secure = FlagWritten(cookie.secure)
    /\ entry.httpOnly = FlagWritten(cookie.httpOnly)

C18_ValueSurvives ==
    [][IsCall({"setSync"}) =>
          \A call \in {last'}, after \in {Stores'} :
              (/\ call.status = "ok"
               /\ IsHttps(call.url)
               /\ IndexOf(call.cookie.value, ";") = 0
               /\ call.cookie.expires # ISO_1970
               /\ \/ call.cookie.path = Nil
                  \/ PathMatches(call.cookie.path, ParseURL(call.url).path)
               /\ \A c \in SelectedStore(Stores, FALSE) : c.name # call.cookie.name) =>
                  \A g \in NitroCookies_getSync(after, call.url) :
                      /\ g.status = "ok"
                      /\ \E c \in JsCookies(g.value) :
                             c.name = call.cookie.name /\ c.value = call.cookie.value]_vars

\* The cookie gives a name and a value and nothing else.
OnlyNameAndValue(cookie) ==
    /\ cookie.path = Nil /\ cookie.domain = Nil /\ cookie.expires = Nil
    /\ cookie.secure = "null" /\ cookie.httpOnly = "null"

\* C19: set / setSync with a valid URL accept a cookie that gives only name
\* and value; and a cookie they accept that omits path or domain (and is
\* not already expired) is in the store afterwards, with path "/" when
\* cookie.path is omitted and with the URL's host as its domain (a leading
\* dot aside) when cookie.domain is omitted.
C19_DefaultsApplied ==
    [][IsCall({"set", "setSync"}) =>
          \A call \in {last'}, after \in {Stores'} :
              ~LacksHttpScheme(call.url) =>
                  /\ OnlyNameAndValue(call.cookie) => call.status = "ok"
                  /\ (/\ call.status = "ok"
                      /\ call.cookie.expires # ISO_1970
                      /\ call.cookie.path = Nil \/ call.cookie.domain = Nil) =>
                         \E c \in SelectedStore(after, call.useWebKit) :
                             /\ c.name = call.cookie.name
                             /\ call.cookie.path = Nil => c.path = S_slash
                             /\ call.cookie.domain = Nil =>
                                    WithoutDot(c.domain) = HostOf(ParseURL(call.url))]_vars

\* A cookie of name and value only was accepted for https://api.example.com
\* and is stored for that host with path "/".
C19_Witness ==
    /\ Succeeded({"set", "setSync"})
    /\ last.url = URL_AEC
    /\ OnlyNameAndValue(last.cookie)
    /\ \E c \in SelectedStore(Stores, last.useWebKit) :
           /\ c.name = last.cookie.name
           /\ c.path = S_slash
           /\ WithoutDot(c.domain) = HOST_AEC

\* The cookie reported stands for the stored one: same name, domain (a
\* leading dot aside) and path.
Reports(entry, stored) ==
    /\ entry.name = stored.name
    /\ WithoutDot(entry.domain) = WithoutDot(stored.domain)
    /\ entry.path = stored.path

\* C20: on iOS the result of get(url) / getSync(url) holds exactly the
\* cookies of the store read whose domain is the URL's host or a parent
\* domain of it, whatever their path and secure flag and the URL's path and
\* scheme: every such cookie is reported and nothing else is.
C20_ExactlyMatchingDomain ==
    (platform = "ios" /\ Succeeded({"get", "getSync"})) =>
        LET matching == {c \in SelectedStore(Stores, last.useWebKit) :
                            CoversHost(c.domain, HostOf(ParseURL(last.url)))}
        IN  /\ \A c \in matching : \E r \in JsCookies(last.value) : Reports(r, c)
            /\ \A r \in JsCookies(last.value) : \E c \in matching : Reports(r, c)

(***************************************************************************)
(* C21..C30                                                                *)
(***************************************************************************)
\* The outcomes of set, get, getAll, clearByName and clearAll are the same
\* with useWebKit given as v and as w.
SameWithUseWebKit(v, w) ==
    /\ \A arg \in SetInputs :
           NitroCookies_set(Stores, arg[1], arg[2], v)
               = NitroCookies_set(Stores, arg[1], arg[2], w)
    /\ \A url \in UrlInputs :
           /\ NitroCookies_get(Stores, url, v) = NitroCookies_get(Stores, url, w)
           /\ \A name \in NameInputs :
                  NitroCookies_clearByName(Stores, url, name, v)
                      = NitroCookies_clearByName(Stores, url, name, w)
    /\ NitroCookies_getAll(Stores, v) = NitroCookies_getAll(Stores, w)
    /\ NitroCookies_clearAll(Stores, v) = NitroCookies_clearAll(Stores, w)

\* C21: whenever the caller is free to make a call, set, get, getAll,
\* clearByName and clearAll called without useWebKit have the results and
\* the effects on the stores of the call with useWebKit = false; on Android
\* the call with useWebKit = true has them too.
C21_OmittedIsFalse ==
    Idle =>
        /\ SameWithUseWebKit("undefined", "false")
        /\ platform = "android" => SameWithUseWebKit("true", "false")

\* The caller is about to call with the two iOS stores holding different
\* cookies (so that true and false differ), or with an Android store that
\* holds a cookie.
C21_Witness ==
    /\ Idle
    /\ \/ platform = "ios" /\ httpStorage # {} /\ webkitStore # {}
          /\ httpStorage # webkitStore
       \/ platform = "android" /\ cookieManager # {}

\* C22: for the URL and cookie.domain of every set / setSync call, the iOS
\* and the Android isMatchingDomain give the same answer, and so do the two
\* validateDomain: both platforms accept the pair or both reject it.
C22_SameDomainMatch ==
    (/\ last.op \in {"set", "setSync"}
     /\ ~LacksHttpScheme(last.url)
     /\ last.cookie.domain # Nil) =>
        /\ isMatchingDomain_ios(last.cookie.domain, HostOf(ParseURL(last.url)))
               = isMatchingDomain_android(last.cookie.domain, HostOf(ParseURL(last.url)))
        /\ validateDomain_ios(last.cookie, ParseURL(last.url))
               = validateDomain_android(last.cookie, ParseURL(last.url))

\* The cookies a step added to one of the stores.
AddedTo(before, after) ==
    (after.http \ before.http) \cup (after.wk \ before.wk) \cup (after.cm \ before.cm)

\* C23: set / setSync with a cookie.domain only write cookies whose domain,
\* one leading dot ignored, is the URL's host or a parent domain of it; a
\* domain that is neither (host badexample.com with domain .example.com,
\* host example.com with domain api.example.com) is rejected with
\* DOMAIN_MISMATCH.
C23_WrittenDomainMatches ==
    [][IsCall({"set", "setSync"}) =>
          \A call \in {last'}, after \in {Stores'} :
              (call.cookie.domain # Nil /\ ~LacksHttpScheme(call.url)) =>
                  /\ \A c \in AddedTo(Stores, after) :
                         CoversHost(c.domain, HostOf(ParseURL(call.url)))
                  /\ ~CoversHost(call.cookie.domain, HostOf(ParseURL(call.url))) =>
                         call.status = "DOMAIN_MISMATCH"]_vars

\* C24: the attributes of the cookie that set / setSync store come from the
\* fields of the cookie argument and from the URL alone: secure and httpOnly
\* are the flags given, the path is the one given or "/", the domain the one
\* given or the URL's host, and a cookie given no expiry has none, whatever
\* the text of cookie.value (a value such as "v; Secure" adds no attribute).
C24_AttributesFromFieldsOnly ==
    [][IsCall({"set", "setSync"}) =>
          \A call \in {last'}, after \in {Stores'} :
              call.status = "ok" =>
                  \A c \in AddedTo(Stores, after) :
                      /\ c.secure = (call.cookie.secure = "true")
                      /\ c.httpOnly = (call.cookie.httpOnly = "true")
                      /\ c.path = IF call.cookie.path = Nil THEN S_slash
                                  ELSE call.cookie.path
                      /\ WithoutDot(c.domain) =
                             IF call.cookie.domain = Nil THEN HostOf(ParseURL(call.url))
                             ELSE WithoutDot(call.cookie.domain)
                      /\ call.cookie.expires = Nil => c.expires = NoDate]_vars

\* A text field free of ";" and of leading and trailing whitespace.
PlainText(text) == IndexOf(text, ";") = 0 /\ Trim(text) = text

\* A cookie with path and domain set, a name without "=", and plain fields.
RoundTripCookie(cookie) ==
    /\ cookie.path # Nil /\ cookie.domain # Nil
    /\ IndexOf(cookie.name, "=") = 0
    /\ \A text \in {cookie.name, cookie.value, cookie.path, cookie.domain} :
           PlainText(text)
    /\ cookie.expires # Nil => PlainText(cookie.expires)

\* The cookie setSync / set pass to toRFC6265String on Android.
LineCookie == cookieWithDefaults_android(last.cookie, ParseURL(last.url))

\* C25: on Android, createCookieData applied to toRFC6265String(cookie)
\* gives, for a cookie with path and domain set, a name without "=" and
\* fields without ";" or surrounding whitespace, a cookie of the same name,
\* value, path and domain, with secure true exactly when it was true in
\* the original, and httpOnly likewise.
C25_RoundTrip ==
    (/\ last.op \in {"set", "setSync"}
     /\ ~LacksHttpScheme(last.url)
     /\ RoundTripCookie(LineCookie)) =>
        \A back \in {createCookieData_android(toRFC6265String(LineCookie),
                                               ParseURL(last.url))} :
            /\ back.ok
            /\ back.cookie.name = LineCookie.name
            /\ back.cookie.value = LineCookie.value
            /\ back.cookie.path = LineCookie.path
            /\ back.cookie.domain = LineCookie.domain
            /\ (back.cookie.secure = "true") = (LineCookie.secure = "true")
            /\ (back.cookie.httpOnly = "true") = (LineCookie.httpOnly = "true")

\* A round trip of a secure cookie with path, domain and an expiry.
C25_Witness ==
    /\ last.op \in {"set", "setSync"}
    /\ ~LacksHttpScheme(last.url)
    /\ RoundTripCookie(LineCookie)
    /\ last.cookie.secure = "true"
    /\ last.cookie.path = PATH_P
    /\ createCookieData_android(toRFC6265String(LineCookie), ParseURL(last.url)).ok

\* The segments of a Set-Cookie line after the first that start with prefix,
\* letter case ignored.
AttributesNamed(parts, prefix) ==
    {i \in 2..Len(parts) : StartsWithIgnoreCase(parts[i], prefix)}

\* The text after prefix in the last such segment, or absent when none is.
AttributeText(parts, prefix, absent) ==
    IF AttributesNamed(parts, prefix) = {} THEN absent
    ELSE LET i == CHOOSE k \in AttributesNamed(parts, prefix) :
                      \A j \in AttributesNamed(parts, prefix) : j <= k
         IN  Trim(SubSeq(parts[i], Len(prefix) + 1, Len(parts[i])))

\* "true" when a segment after the first is the word, letter case ignored.
AttributeFlag(parts, word) ==
    IF \E i \in 2..Len(parts) : Lower(parts[i]) = Lower(word) THEN "true" ELSE "null"

\* What C26 says of the cookie parsed from a line whose segments are parts
\* and whose first segment has its first "=" at position eq.
ParsedAsSaid(parsed, parts, eq, host) ==
    IF eq = 0 THEN ~parsed.ok
    ELSE /\ parsed.ok
         /\ parsed.cookie.name = Trim(SubSeq(parts[1], 1, eq - 1))
         /\ parsed.cookie.value = Trim(SubSeq(parts[1], eq + 1, Len(parts[1])))
         /\ parsed.cookie.path = AttributeText(parts, S_PathEq, S_slash)
         /\ parsed.cookie.domain = AttributeText(parts, S_DomainEq, host)
         /\ parsed.cookie.secure = AttributeFlag(parts, S_Secure)
         /\ parsed.cookie.httpOnly = AttributeFlag(parts, S_HttpOnly)
         /\ AttributesNamed(parts, S_ExpiresEq) = {} => parsed.cookie.expires = Nil

C27_AndroidGetFields ==
    (platform = "android" /\ Succeeded({"get", "getSync"})) =>
        \A r \in JsCookies(last.value) :
            /\ r.path = S_slash
            /\ r.domain = HostOf(ParseURL(last.url))
            /\ r.expires = Nil /\ r.version = Nil
            /\ r.secure = "null" /\ r.httpOnly = "null"
            /\ \E c \in cookieManager : c.name = r.name /\ c.value = r.value

\* get / getSync for https://example.com/p reports the secure cookie stored
\* with domain .example.com and path /p.
C27_Witness ==
    /\ platform = "android"
    /\ Succeeded({"get", "getSync"})
    /\ \E r \in JsCookies(last.value) :
           \E c \in cookieManager :
               /\ c.name = r.name /\ c.value = r.value
               /\ c.path = PATH_P /\ c.domain = DOT_EC /\ c.secure
               /\ r.path = S_slash /\ r.domain = HOST_EC /\ r.secure = "null"

\* C28: set / setSync given an expires text that is not an ISO 8601 date
\* (and a valid URL, and a domain that covers its host) return true and
\* leave in the selected store a cookie of the name, value, path, domain
\* and flags given, without an expiry date, on iOS and on Android.
C28_BadExpiresIsSession ==
    [][IsCall({"set", "setSync"}) =>
          \A call \in {last'}, after \in {Stores'} :
              (/\ call.cookie.expires = ISO_BAD
               /\ ~LacksHttpScheme(call.url)
               /\ call.cookie.domain # Nil =>
                      CoversHost(call.cookie.domain, HostOf(ParseURL(call.url)))) =>
                  /\ call.status = "ok"
                  /\ call.value = JsBoolean(TRUE)
                  /\ \E c \in SelectedStore(after, call.useWebKit) :
                         /\ c.name = call.cookie.name
                         /\ c.value = call.cookie.value
                         /\ c.path = IF call.cookie.path = Nil THEN S_slash
                                     ELSE call.cookie.path
                         /\ WithoutDot(c.domain) =
                                IF call.cookie.domain = Nil
                                THEN HostOf(ParseURL(call.url))
                                ELSE WithoutDot(call.cookie.domain)
                         /\ c.secure = (call.cookie.secure = "true")
                         /\ c.httpOnly = (call.cookie.httpOnly = "true")
                         /\ c.expires = NoDate]_vars

\* A set / setSync with an unparsable expires succeeded and its cookie is
\* in the store as a session cookie.
C28_Witness ==
    /\ Succeeded({"set", "setSync"})
    /\ last.cookie.expires = ISO_BAD
    /\ \E c \in SelectedStore(Stores, last.useWebKit) :
           c.name = last.cookie.name /\ c.value = last.cookie.value
           /\ c.expires = NoDate

\* C29: on iOS, at the step that resolves the promise of clearAll(true),
\* the WebKit store holds no cookie written by a set(url, cookie, true)
\* whose promise had resolved before (no other set having written the
\* same cookie), whatever the interleaving of getAllCookies, the deletes
\* and setCookie.
C29_ClearAllAtomic ==
    [][\A t \in TaskIds :
          (/\ platform = "ios"
           /\ tasks[t].op = "clearAll"
           /\ tasks[t].settled = 0
           /\ tasks'[t].settled = 1) =>
              \A u \in TaskIds :
                  (/\ tasks[u].op = "set"
                   /\ tasks[u].settled = 1
                   /\ tasks[u].value = "true"
                   /\ \A w \in TaskIds \ {u} : tasks[w].cookies # tasks[u].cookies) =>
                      tasks[u].cookies[1] \notin webkitStore']_vars

====
